---- MODULE Spec2Model ----
(***************************************************************************)
(* Model of main.py: the Inventory index, the Matcher (manufacturer_match, *)
(* product_name_match, find_match), the loaders and the reconciliation     *)
(* loop of __main__.                                                       *)
(*                                                                         *)
(* A Python str is a sequence of one-character strings.  A Product object  *)
(* is a position in objs (the heap); objs[p] is the object's __dict__.     *)
(* An optional value is <<>> (None) or <<v>>.                              *)
(***************************************************************************)
EXTENDS Integers, Sequences, FiniteSets, TLC

VARIABLES
    objs,                 \* heap of Product objects: objs[p] is p.__dict__
    products_fp,          \* lines of PRODUCTS_FILE not yet read
    listings_fp,          \* lines of LISTINGS_FILE not yet read
    product_list,         \* module-level product_list (object references)
    listing_list,         \* module-level listing_list (Listing records)
    inventory,            \* the Inventory: product_list and manufacturer_index
    matches,              \* the matches dict: title -> reference to a __dict__
    k,                    \* position of Inventory.__init__'s loop
    i,                    \* position of the reconciliation loop
    listing_manufacturer, \* locals of the last loop iteration
    potential_items,
    matched_item,
    out,                  \* what was written to MATCHES_FILE
    fpos,                 \* lines already read from the file being loaded
    exc,                  \* the uncaught exception, once one is raised
    call,                 \* arguments of a direct call of a Matcher function
    ret,                  \* its return value
    pc

vars == <<objs, products_fp, listings_fp, product_list, listing_list, inventory,
          matches, k, i, listing_manufacturer, potential_items, matched_item,
          out, fpos, exc, call, ret, pc>>

-----------------------------------------------------------------------------
(* Bounds of the instances. *)

MaxBrandLen == 2
MaxBrands == 2
MaxTitleLen == 3
MaxCandidates == 3
MaxProducts == 3
MaxListings == 2
MaxLines == 2
MaxNameLen == 3

-----------------------------------------------------------------------------
(* Strings. *)

None == <<>>
Some(v) == <<v>>

Range(s) == {s[j] : j \in 1..Len(s)}

(* Code point of a character (Python compares str by code point). *)
Ord(c) ==
    CASE c = " " -> 32
      [] c = "-" -> 45
      [] c = "." -> 46
      [] c = "A" -> 65
      [] c = "B" -> 66
      [] c = "_" -> 95
      [] c = "a" -> 97
      [] c = "b" -> 98

(* str.upper on one character. *)
Upper(c) ==
    CASE c = "a" -> "A"
      [] c = "b" -> "B"
      [] OTHER -> c

upper(s) == [j \in 1..Len(s) |-> Upper(s[j])]

(* s < t for Python str: lexicographic by code point, a proper prefix first. *)
StrLess(s, t) ==
    \E j \in 1..(Len(t)) :
        /\ j <= Len(s) + 1
        /\ \A h \in 1..(j - 1) : s[h] = t[h]
        /\ \/ j = Len(s) + 1
           \/ (j <= Len(s) /\ Ord(s[j]) < Ord(t[j]))

(* All strings over alphabet of length at most n. *)
StringsUpTo(alphabet, n) == UNION {[1..m -> alphabet] : m \in 0..n}

(* All sequences without repetition over S of length at most n. *)
DistinctSeqs(S, n) ==
    {s \in UNION {[1..m -> S] : m \in 0..n} :
        \A a, b \in 1..Len(s) : a # b => s[a] # s[b]}

SeqsUpTo(S, n) == UNION {[1..m -> S] : m \in 0..n}

-----------------------------------------------------------------------------
(* Regular expressions, as far as the patterns main.py builds from the     *)
(* modelled alphabet go: every character is a literal except ".", which    *)
(* matches any character; flags=re.IGNORECASE.                             *)

AtomMatches(p, c) == p = "." \/ Upper(p) = Upper(c)

(* The pattern text pat matches s starting at position pos. *)
PatAt(pat, s, pos) ==
    /\ pos + Len(pat) - 1 <= Len(s)
    /\ \A j \in 1..Len(pat) : AtomMatches(pat[j], s[pos + j - 1])

(* re.match(pattern, string, flags=re.IGNORECASE) is not None. *)
re_match(pattern, string) == PatAt(pattern, string, 1)

(* re.split('[_-]', s). *)
RECURSIVE re_split(_)
re_split(s) ==
    IF \E j \in 1..Len(s) : s[j] \in {"_", "-"}
    THEN LET j == CHOOSE x \in 1..Len(s) :
                     /\ s[x] \in {"_", "-"}
                     /\ \A y \in 1..(x - 1) : s[y] \notin {"_", "-"}
         IN  <<SubSeq(s, 1, j - 1)>> \o re_split(SubSeq(s, j + 1, Len(s)))
    ELSE <<s>>

(* The regex (kw1){1}.*(kw2){1}.* ... tried at position pos of title. *)
RECURSIVE product_regex_at(_, _, _)
product_regex_at(kws, title, pos) ==
    IF kws = <<>> THEN TRUE
    ELSE /\ PatAt(Head(kws), title, pos)
         /\ \E nxt \in (pos + Len(Head(kws)))..(Len(title) + 1) :
                product_regex_at(Tail(kws), title, nxt)

-----------------------------------------------------------------------------
(* dict, in insertion order: a sequence of [key, value] entries. *)

dict_keys(d) == [j \in 1..Len(d) |-> d[j].key]

dict_has(d, key) == \E j \in 1..Len(d) : d[j].key = key

dict_at(d, key) == d[CHOOSE j \in 1..Len(d) : d[j].key = key].value

dict_set(d, key, value) ==
    IF dict_has(d, key)
    THEN [j \in 1..Len(d) |-> IF d[j].key = key
                              THEN [key |-> key, value |-> value]
                              ELSE d[j]]
    ELSE Append(d, [key |-> key, value |-> value])

-----------------------------------------------------------------------------
(* class Inventory *)

(* Inventory.__init__ before its loop over product_list. *)
Inventory_empty == [product_list |-> <<>>, manufacturer_index |-> <<>>]

(* add_product with the "except KeyError" assignment run for every         *)
(* product: the bucket is replaced, not appended to.                       *)
add_product_replacing(inv, product) ==
    [product_list |-> Append(inv.product_list, product),
     manufacturer_index |->
         dict_set(inv.manufacturer_index, objs[product].manufacturer,
                  <<product>>)]

add_product(inv, product) ==
    LET m == objs[product].manufacturer
        index == inv.manufacturer_index
    IN  [product_list |-> Append(inv.product_list, product),
         manufacturer_index |->
             IF dict_has(index, m)
             THEN dict_set(index, m, Append(dict_at(index, m), product))
             ELSE dict_set(index, m, <<product>>)]

(* manufacturer is None or Some(name); the keys are the products'         *)
(* manufacturer strings, so None is no key.                                *)
items_by_manufacturer(inv, manufacturer) ==
    IF manufacturer # None /\ dict_has(inv.manufacturer_index, manufacturer[1])
    THEN dict_at(inv.manufacturer_index, manufacturer[1])
    ELSE <<>>

(* The index after items_by_manufacturer: dict.get inserts nothing. *)
index_after_get(index, manufacturer) == index

-----------------------------------------------------------------------------
(* class Matcher *)

(* manufacturer_match testing the brand against the listing's own        *)
(* manufacturer field instead of its title.                                *)
manufacturer_match_own_field(manufacturer_list, listing) ==
    LET matched_brands ==
            SelectSeq(manufacturer_list,
                      LAMBDA brand : re_match(brand, listing.manufacturer))
    IN  IF Len(matched_brands) = 1 THEN Some(matched_brands[1]) ELSE None

(* manufacturer_match returning the first matched brand whenever there is *)
(* one: "len(matched_brands) >= 1".                                        *)
manufacturer_match_first(manufacturer_list, listing) ==
    LET matched_brands ==
            SelectSeq(manufacturer_list,
                      LAMBDA brand : re_match(brand, listing.title))
    IN  IF Len(matched_brands) >= 1 THEN Some(matched_brands[1]) ELSE None

manufacturer_match(manufacturer_list, listing) ==
    LET matched_brands ==
            SelectSeq(manufacturer_list,
                      LAMBDA brand : re_match(brand, listing.title))
    IN  IF Len(matched_brands) = 1 THEN Some(matched_brands[1]) ELSE None

(* Returns <<match, confidence>>; match stands for "regex_match is not None". *)
product_name_match(product, listing) ==
    LET split == re_split(objs[product].product_name)
        pn_keywords == [j \in 1..Len(split) |-> upper(split[j])]
    IN  <<product_regex_at(pn_keywords, listing.title, 1), 80>>

(* sorted(product_list, key=lambda x: x.product_name): stable.  plist is  *)
(* the parameter product_list.                                             *)
RECURSIVE sorted(_)
sorted(plist) ==
    IF plist = <<>> THEN <<>>
    ELSE LET n == Len(plist)
             x == plist[n]
             rest == sorted(SubSeq(plist, 1, n - 1))
             \* x goes after every element whose key is not greater
             before == SelectSeq(rest, LAMBDA y :
                           ~StrLess(objs[x].product_name, objs[y].product_name))
             after == SelectSeq(rest, LAMBDA y :
                           StrLess(objs[x].product_name, objs[y].product_name))
         IN  before \o <<x>> \o after

(* find_match without the sort: the last match in the order given. *)
find_match_unsorted(plist, listing) ==
    LET potential_fits ==
            SelectSeq(plist,
                      LAMBDA product : product_name_match(product, listing)[1])
    IN  IF potential_fits # <<>>
        THEN Some(potential_fits[Len(potential_fits)])
        ELSE None

find_match(plist, listing) ==
    LET potential_fits ==
            SelectSeq(sorted(plist),
                      LAMBDA product : product_name_match(product, listing)[1])
    IN  IF potential_fits # <<>>
        THEN Some(potential_fits[Len(potential_fits)])
        ELSE None

(* The list after "product_list.sort(key=...)" in place of sorted(). *)
list_after_sort_in_place(plist) == sorted(plist)

(* The list passed to find_match, after the call: sorted() builds a new    *)
(* list and leaves its argument as it was.                                 *)
list_after_find_match(plist) == plist

-----------------------------------------------------------------------------
(* __main__: the reconciliation loop *)

(* matches[title] = ref *)
matches_set(m, title, ref) ==
    [t \in DOMAIN m \cup {title} |-> IF t = title THEN ref ELSE m[t]]

(* dict(matched_item.__dict__): a new dict with the same items. *)
dict_of_copy(heap, product) ==
    [heap |-> Append(heap, heap[product]), ref |-> Len(heap) + 1]

(* matched_item.__dict__: the object's own attribute dict, not a copy.     *)
(* Returns the heap after the expression and the reference it yields.      *)
dict_of(heap, product) == [heap |-> heap, ref |-> product]

(* The lookup key taken from the listing's own manufacturer field. *)
resolve_trusting(inv, listing) == Some(listing.manufacturer)

(* inv_manufacturers = list(inventory.manufacturer_index.keys());          *)
(* listing_manufacturer = Matcher.manufacturer_match(inv_manufacturers,    *)
(* listing): the listing's own manufacturer field is not consulted.        *)
resolve(inv, listing) ==
    manufacturer_match(dict_keys(inv.manufacturer_index), listing)

(* One iteration of "for listing in listing_list" from the dict m and the  *)
(* Inventory inv: the locals it sets, whether it got past "continue", and  *)
(* the dict, the Inventory and the heap it leaves.                         *)
iteration(m, inv, listing) ==
    LET lm == resolve(inv, listing)
        items == items_by_manufacturer(inv, lm)
        index1 == index_after_get(inv.manufacturer_index, lm)
        found == find_match(items, listing)
        \* potential_items is the bucket itself, not a copy of it
        index2 == dict_set(index1, lm[1], list_after_find_match(items))
        entry == dict_of(objs, found[1])
    IN  IF items = <<>>
        THEN [listing_manufacturer |-> lm, potential_items |-> items,
              continued |-> TRUE, matched_item |-> None, matches |-> m,
              inventory |-> [inv EXCEPT !.manufacturer_index = index1],
              objs |-> objs]
        ELSE [listing_manufacturer |-> lm, potential_items |-> items,
              continued |-> FALSE, matched_item |-> found,
              matches |-> IF found # None
                          THEN matches_set(m, listing.title, entry.ref)
                          ELSE m,
              inventory |-> [inv EXCEPT !.manufacturer_index = index2],
              objs |-> IF found # None THEN entry.heap ELSE objs]

(* The whole loop over the listings ls, from the dict m: the dict it      *)
(* leaves.                                                                 *)
RECURSIVE run_loop(_, _, _)
run_loop(m, inv, ls) ==
    IF ls = <<>> THEN m
    ELSE LET r == iteration(m, inv, Head(ls))
         IN  run_loop(r.matches, r.inventory, Tail(ls))

(* json.dumps(matches): every entry's attributes as they are when written. *)
json_dumps(m) == [t \in DOMAIN m |-> objs[m[t]]]

(* matches = {}; inventory = Inventory(product_list), up to its loop. *)
Inventory__init__ ==
    /\ pc = "main"
    /\ matches' = <<>>
    /\ inventory' = Inventory_empty
    /\ k' = 1
    /\ i' = 1
    /\ pc' = IF product_list # <<>> THEN "construct" ELSE "loop"
    /\ UNCHANGED <<objs, products_fp, listings_fp, product_list, listing_list,
                   listing_manufacturer, potential_items, matched_item, out,
                   fpos, exc, call, ret>>

(* for item in product_list: self.add_product(item) *)
Inventory_add ==
    /\ pc = "construct"
    /\ inventory' = add_product(inventory, product_list[k])
    /\ k' = k + 1
    /\ pc' = IF k = Len(product_list) THEN "loop" ELSE "construct"
    /\ UNCHANGED <<objs, products_fp, listings_fp, product_list, listing_list,
                   matches, i, listing_manufacturer, potential_items,
                   matched_item, out, fpos, exc, call, ret>>

(* for listing in listing_list: ... ; the loop's exit leads to the write. *)
reconcile ==
    /\ pc = "loop"
    /\ IF i > Len(listing_list)
       THEN /\ pc' = "write"
            /\ UNCHANGED <<objs, inventory, matches, i, listing_manufacturer,
                           potential_items, matched_item>>
       ELSE LET r == iteration(matches, inventory, listing_list[i])
            IN  /\ listing_manufacturer' = r.listing_manufacturer
                /\ potential_items' = r.potential_items
                /\ matched_item' = IF r.continued THEN matched_item
                                   ELSE r.matched_item
                /\ matches' = r.matches
                /\ inventory' = r.inventory
                /\ objs' = r.objs
                /\ i' = i + 1
                /\ pc' = "loop"
    /\ UNCHANGED <<products_fp, listings_fp, product_list, listing_list, k,
                   out, fpos, exc, call, ret>>

(* matches_fp.write(json.dumps(matches)) *)
write_matches ==
    /\ pc = "write"
    /\ out' = Some(json_dumps(matches))
    /\ pc' = "done"
    /\ UNCHANGED <<objs, products_fp, listings_fp, product_list, listing_list,
                   inventory, matches, k, i, listing_manufacturer,
                   potential_items, matched_item, fpos, exc, call, ret>>

-----------------------------------------------------------------------------
(* The records of the program and the inputs the instances draw from. *)

(* Product.__init__: the attributes of a new Product. *)
Product(manufacturer, model, product_name, announced_date, family) ==
    [product_name |-> product_name, manufacturer |-> manufacturer,
     model |-> model, announced_date |-> announced_date, family |-> family]

(* Listing.__init__ *)
Listing(title, manufacturer, currency, price) ==
    [title |-> title, manufacturer |-> manufacturer, currency |-> currency,
     price |-> price]

(* A catalog with two products of one manufacturer ("a"), a manufacturer   *)
(* whose name extends another's ("ab"), and a second manufacturer ("b")    *)
(* whose product no title starting with "b" matches.                       *)
CatalogPool ==
    {Product(<<"a">>, "m1", <<"a", "_", "b">>, "2010", Some("f")),
     Product(<<"a">>, "m2", <<"a">>, "2011", None),
     Product(<<"a", "b">>, "m1", <<"a", "b">>, "2010", None),
     Product(<<"b">>, "m1", <<"a">>, "2010", None)}

(* Listings: two share a title and differ in their own manufacturer field. *)
ListingPool ==
    {Listing(<<"a", "b">>, <<"a">>, "CAD", "1"),
     Listing(<<"a", "b">>, <<"b">>, "CAD", "2"),
     Listing(<<"b", "a">>, <<"b">>, "CAD", "1"),
     Listing(<<"A", "a">>, <<"a">>, "CAD", "1")}

(* The variables no instruction has set yet. *)
Unset ==
    /\ inventory = Inventory_empty
    /\ matches = <<>>
    /\ k = 1
    /\ i = 1
    /\ listing_manufacturer = None
    /\ potential_items = <<>>
    /\ matched_item = None
    /\ out = None
    /\ fpos = 0
    /\ exc = None

(* The core: __main__ from "matches = {}" on, given the two collections. *)
Init ==
    /\ objs \in SeqsUpTo(CatalogPool, MaxProducts)
    /\ product_list = [j \in 1..Len(objs) |-> j]
    /\ listing_list \in SeqsUpTo(ListingPool, MaxListings)
    /\ products_fp = <<>>
    /\ listings_fp = <<>>
    /\ call = None
    /\ ret = None
    /\ pc = "main"
    /\ Unset

Next ==
    \/ Inventory__init__
    \/ Inventory_add
    \/ reconcile
    \/ write_matches

Spec == Init /\ [][Next]_vars

-----------------------------------------------------------------------------
(* A client of the objects after the loop and before the write: Python     *)
(* lets it assign a Product's attribute, and an item of an entry.          *)

(* product.model = "changed", for a Product an entry was recorded for. *)
Product_setattr ==
    /\ pc = "write"
    /\ \E p \in Range(inventory.product_list) :
           /\ \E t \in DOMAIN matches : matches[t] = p
           /\ objs[p].model \notin {"changed", "edited"}
           /\ objs' = [objs EXCEPT ![p].model = "changed"]
    /\ UNCHANGED <<products_fp, listings_fp, product_list, listing_list,
                   inventory, matches, k, i, listing_manufacturer,
                   potential_items, matched_item, out, fpos, exc, call, ret,
                   pc>>

(* matches[t]["model"] = "edited" *)
entry_setitem ==
    /\ pc = "write"
    /\ \E t \in DOMAIN matches :
           /\ objs[matches[t]].model \notin {"changed", "edited"}
           /\ objs' = [objs EXCEPT ![matches[t]].model = "edited"]
    /\ UNCHANGED <<products_fp, listings_fp, product_list, listing_list,
                   inventory, matches, k, i, listing_manufacturer,
                   potential_items, matched_item, out, fpos, exc, call, ret,
                   pc>>

NextAlias ==
    \/ Inventory__init__
    \/ Inventory_add
    \/ reconcile
    \/ write_matches
    \/ Product_setattr
    \/ entry_setitem

SpecAlias == Init /\ [][NextAlias]_vars

-----------------------------------------------------------------------------
(* The whole process: load_products, load_listings, then the core. *)

(* A line of an input file: a JSON object with the required keys (the     *)
(* record it decodes to), text that is not JSON, or a JSON object that     *)
(* lacks a required key.                                                   *)
RecordLine(r) == [kind |-> "record", record |-> Some(r)]
NotJsonLine == [kind |-> "notjson", record |-> None]
NoKeyLine == [kind |-> "nokey", record |-> None]

ProductLines ==
    {RecordLine(r) : r \in CatalogPool} \cup {NotJsonLine, NoKeyLine}

ListingLines ==
    {RecordLine(r) : r \in ListingPool} \cup {NotJsonLine, NoKeyLine}

(* listings = list.append(new_listing): append is called on the type list *)
(* with the Listing as its only argument, which is a TypeError.            *)
list_append(new_listing) == "TypeError"

(* load_products(products_fp): one line, or the return. *)
load_products ==
    /\ pc = "load_products"
    /\ IF fpos = Len(products_fp)
       THEN /\ pc' = "load_listings"
            /\ fpos' = 0
            /\ UNCHANGED <<objs, product_list, exc>>
       ELSE LET line == products_fp[fpos + 1]
            IN  /\ fpos' = fpos + 1
                /\ CASE line.kind = "record" ->
                            \* products.append(Product(...))
                            /\ objs' = Append(objs, line.record[1])
                            /\ product_list' = Append(product_list, Len(objs) + 1)
                            /\ UNCHANGED <<exc, pc>>
                     [] line.kind = "notjson" ->
                            \* except json.JSONDecodeError: print(...)
                            UNCHANGED <<objs, product_list, exc, pc>>
                     [] line.kind = "nokey" ->
                            /\ exc' = Some("KeyError")
                            /\ pc' = "raised"
                            /\ UNCHANGED <<objs, product_list>>
    /\ UNCHANGED <<products_fp, listings_fp, listing_list, inventory, matches,
                   k, i, listing_manufacturer, potential_items, matched_item,
                   out, call, ret>>

(* load_listings(listings_fp): one line, or the return of listings, which *)
(* is still the empty list.                                                *)
load_listings ==
    /\ pc = "load_listings"
    /\ IF fpos = Len(listings_fp)
       THEN /\ listing_list' = <<>>
            /\ pc' = "main"
            /\ UNCHANGED <<fpos, exc>>
       ELSE LET line == listings_fp[fpos + 1]
            IN  /\ fpos' = fpos + 1
                /\ exc' = CASE line.kind = "record" ->
                                   Some(list_append(line.record[1]))
                            [] line.kind = "notjson" -> Some("JSONDecodeError")
                            [] line.kind = "nokey" -> Some("KeyError")
                /\ pc' = "raised"
                /\ UNCHANGED listing_list
    /\ UNCHANGED <<objs, products_fp, listings_fp, product_list, inventory,
                   matches, k, i, listing_manufacturer, potential_items,
                   matched_item, out, call, ret>>

InitMain ==
    /\ objs = <<>>
    /\ product_list = <<>>
    /\ listing_list = <<>>
    /\ products_fp \in SeqsUpTo(ProductLines, MaxLines)
    /\ listings_fp \in SeqsUpTo(ListingLines, MaxLines)
    /\ call = None
    /\ ret = None
    /\ pc = "load_products"
    /\ Unset

NextMain ==
    \/ load_products
    \/ load_listings
    \/ Inventory__init__
    \/ Inventory_add
    \/ reconcile
    \/ write_matches

SpecMain == InitMain /\ [][NextMain]_vars

-----------------------------------------------------------------------------
(* Direct calls of the Matcher's functions, on every input of a bounded    *)
(* set: the call's arguments are in call, its return value in ret.         *)

TitleChars == {"a", "A", "b"}
BrandChars == {"A", "."}
NameChars == {"a", "B", "_", "-"}

Titles == StringsUpTo(TitleChars, MaxTitleLen)

ListingTitled(t) == Listing(t, <<>>, "CAD", "1")

NoProgram ==
    /\ product_list = <<>>
    /\ listing_list = <<>>
    /\ products_fp = <<>>
    /\ listings_fp = <<>>
    /\ ret = None
    /\ pc = "call"
    /\ Unset

Returns(value) ==
    /\ pc = "call"
    /\ ret' = value
    /\ pc' = "return"
    /\ UNCHANGED <<objs, products_fp, listings_fp, product_list, listing_list,
                   inventory, matches, k, i, listing_manufacturer,
                   potential_items, matched_item, out, fpos, exc, call>>

(* Matcher.manufacturer_match on a list of distinct names and a listing. *)
InitResolver ==
    /\ objs = <<>>
    /\ call \in {[manufacturer_list |-> ml, listing |-> ListingTitled(t)] :
                    ml \in DistinctSeqs(StringsUpTo(BrandChars, MaxBrandLen),
                                        MaxBrands),
                    t \in Titles}
    /\ NoProgram

call_manufacturer_match ==
    Returns(manufacturer_match(call.manufacturer_list, call.listing))

NextResolver == call_manufacturer_match

SpecResolver == InitResolver /\ [][NextResolver]_vars

(* Matcher.product_name_match on a product and a listing. *)
InitScore ==
    /\ objs \in {<<Product(<<>>, "m1", n, "2010", None)>> :
                    n \in StringsUpTo(NameChars, MaxNameLen)}
    /\ call \in {[product |-> 1, listing |-> ListingTitled(t)] : t \in Titles}
    /\ NoProgram

call_product_name_match ==
    Returns(product_name_match(call.product, call.listing))

NextScore == call_product_name_match

SpecScore == InitScore /\ [][NextScore]_vars

(* Candidates for find_match: two products of one name, names in both     *)
(* cases, names that extend another name.                                  *)
CandidatePool ==
    {Product(<<"a">>, "m1", <<"a">>, "2010", None),
     Product(<<"a">>, "m2", <<"a">>, "2010", None),
     Product(<<"a">>, "m1", <<"a", "_", "b">>, "2010", None),
     Product(<<"a">>, "m1", <<"a", "-", "a">>, "2010", None),
     Product(<<"a">>, "m1", <<"A", "_", "B">>, "2010", None),
     Product(<<"a">>, "m1", <<"b">>, "2010", None)}

(* Matcher.find_match on a list of candidates and a listing. *)
InitBest ==
    /\ objs \in SeqsUpTo(CandidatePool, MaxCandidates)
    /\ call \in {[candidates |-> [j \in 1..Len(objs) |-> j],
                  listing |-> ListingTitled(t)] : t \in Titles}
    /\ NoProgram

call_find_match == Returns(find_match(call.candidates, call.listing))

NextBest == call_find_match

SpecBest == InitBest /\ [][NextBest]_vars

-----------------------------------------------------------------------------
(* Properties of the Inventory and of the reconciliation loop (Spec). *)

AfterLoop == pc \in {"write", "done"}

(* The manufacturer names of the catalog, and one that no product has. *)
ManufacturerNames ==
    {p.manufacturer : p \in CatalogPool} \cup {<<"b", "b">>}

(* The products added so far whose manufacturer is m, in insertion order. *)
AddedOf(m) ==
    SelectSeq(inventory.product_list, LAMBDA p : objs[p].manufacturer = m)

(* The entries of manufacturer_index whose bucket holds product p. *)
BucketsHolding(p) ==
    {e \in 1..Len(inventory.manufacturer_index) :
        p \in Range(inventory.manufacturer_index[e].value)}

(* C4: after any sequence of add_product calls, items_by_manufacturer(m)   *)
(* is exactly the subsequence of the added products whose manufacturer is  *)
(* m, in insertion order (empty when m is unknown), and every added        *)
(* product is in exactly one bucket, the one keyed by its manufacturer.    *)
C4_BucketsAreSubsequences ==
    /\ inventory.product_list
           = SubSeq(product_list, 1, Len(inventory.product_list))
    /\ pc \in {"loop", "write", "done"} => inventory.product_list = product_list
    /\ \A m \in ManufacturerNames :
           items_by_manufacturer(inventory, Some(m)) = AddedOf(m)
    /\ \A p \in Range(inventory.product_list) :
           /\ Cardinality(BucketsHolding(p)) = 1
           /\ \A e \in BucketsHolding(p) :
                  inventory.manufacturer_index[e].key = objs[p].manufacturer

(* Reached: a bucket holding the first and the third product added, the    *)
(* second one being another manufacturer's.                                *)
C4_Witness ==
    /\ pc = "loop"
    /\ \E e \in 1..Len(inventory.manufacturer_index) :
           inventory.manufacturer_index[e].value = <<1, 3>>
    /\ items_by_manufacturer(inventory, Some(<<"b", "b">>)) = <<>>

(* The known manufacturer names that match the title as a pattern at its   *)
(* start.                                                                  *)
NamesMatching(title) ==
    {n \in Range(dict_keys(inventory.manufacturer_index)) : re_match(n, title)}

TheNameMatching(title) == CHOOSE n \in NamesMatching(title) : TRUE

(* The listing's manufacturer resolves to a single known manufacturer,     *)
(* whose candidate list is non-empty.                                      *)
Resolved(listing) ==
    /\ Cardinality(NamesMatching(listing.title)) = 1
    /\ AddedOf(TheNameMatching(listing.title)) # <<>>

(* ... and find_match returns a product for it. *)
Qualifies(listing) ==
    /\ Resolved(listing)
    /\ find_match(AddedOf(TheNameMatching(listing.title)), listing) # None

(* C5: after the loop, a listing's title has an entry exactly when its     *)
(* manufacturer resolved to a single known manufacturer with a non-empty   *)
(* candidate list and find_match returned a product; the entry is that     *)
(* product's attributes.  No other title has an entry.                     *)
C5_EntryIffMatched ==
    AfterLoop =>
        /\ \A l \in Range(listing_list) :
               /\ l.title \in DOMAIN matches <=> Qualifies(l)
               /\ Qualifies(l) =>
                      LET p == find_match(AddedOf(TheNameMatching(l.title)), l)[1]
                      IN  /\ matches[l.title] = p
                          /\ json_dumps(matches)[l.title] = objs[p]
        /\ DOMAIN matches \subseteq {l.title : l \in Range(listing_list)}

(* Reached: one listing with an entry, one whose manufacturer resolved but *)
(* whose candidates all fail the keyword match, so that it has none.       *)
C5_Witness ==
    /\ pc = "done"
    /\ \E l1, l2 \in Range(listing_list) :
           /\ l1.title \in DOMAIN matches
           /\ l2.title \notin DOMAIN matches
           /\ Resolved(l2)

(* The sequence s rearranged by the permutation f of its positions. *)
Rearranged(s, f) == [j \in 1..Len(s) |-> s[f[j]]]

(* C7: for a fixed catalog, the loop over any permutation of the listings  *)
(* leaves the same title-to-product mapping as the loop that ran.          *)
C7_OrderIndependent ==
    AfterLoop =>
        \A f \in Permutations(1..Len(listing_list)) :
            run_loop(<<>>, inventory, Rearranged(listing_list, f)) = matches

(* Reached: two different listings with one title, which has an entry.     *)
C7_Witness ==
    /\ pc = "done"
    /\ Len(listing_list) >= 2
    /\ listing_list[1] # listing_list[2]
    /\ listing_list[1].title = listing_list[2].title
    /\ listing_list[1].title \in DOMAIN matches

(* C9: an iteration of the reconciliation loop leaves the Inventory's      *)
(* product_list, the set of keys of manufacturer_index and the contents    *)
(* and order of every bucket unchanged.                                    *)
C9_InventoryReadOnly ==
    [][pc = "loop" =>
        /\ inventory'.product_list = inventory.product_list
        /\ Range(dict_keys(inventory'.manufacturer_index))
               = Range(dict_keys(inventory.manufacturer_index))
        /\ \A n \in Range(dict_keys(inventory.manufacturer_index)) :
               dict_at(inventory'.manufacturer_index, n)
                   = dict_at(inventory.manufacturer_index, n)]_vars

(* Reached: an iteration that ran find_match on a bucket that is not in    *)
(* sorted order, after one whose manufacturer did not resolve.             *)
C9_Witness ==
    /\ pc = "loop"
    /\ i = 3
    /\ resolve(inventory, listing_list[1]) = None
    /\ Len(potential_items) >= 2
    /\ potential_items # sorted(potential_items)
    /\ matched_item # None

-----------------------------------------------------------------------------
(* Properties of the Matcher's functions (SpecResolver, SpecScore,         *)
(* SpecBest).                                                              *)

(* name, read as a pattern, matches title at its start, ignoring case. *)
StartsWithPattern(name, title) ==
    /\ Len(name) <= Len(title)
    /\ \A j \in 1..Len(name) :
           name[j] = "." \/ Upper(name[j]) = Upper(title[j])

NamesStarting(names, title) == {n \in names : StartsWithPattern(n, title)}

(* C1: manufacturer_match returns the name n when n is the only one of    *)
(* the names that matches the title as a case-insensitive pattern at its   *)
(* start, and None when no name or more than one name matches.             *)
C1_UniquePrefixOrNone ==
    pc = "return" =>
        LET hits == NamesStarting(Range(call.manufacturer_list),
                                  call.listing.title)
        IN  /\ Cardinality(hits) = 1 => \A n \in hits : ret = Some(n)
            /\ Cardinality(hits) # 1 => ret = None

(* Reached: of two names that both match the title, one extending the     *)
(* other, none is returned; the title differs from them in case.           *)
C1_Witness ==
    /\ pc = "return"
    /\ call.manufacturer_list = <<<<"A">>, <<"A", "A">>>>
    /\ call.listing.title = <<"a", "a", "b">>
    /\ ret = None

(* The keywords kws occur in title from position pos on, in order, one    *)
(* after the other, ignoring case.                                         *)
RECURSIVE OccurInOrder(_, _, _)
OccurInOrder(kws, title, pos) ==
    IF kws = <<>> THEN TRUE
    ELSE \E q \in pos..(Len(title) + 1) :
            /\ q + Len(Head(kws)) - 1 <= Len(title)
            /\ \A j \in 1..Len(Head(kws)) :
                   Upper(Head(kws)[j]) = Upper(title[q + j - 1])
            /\ OccurInOrder(Tail(kws), title, q + Len(Head(kws)))

(* C2: when the title contains every keyword of the product name, in      *)
(* order, wherever the first keyword occurs, product_name_match reports a  *)
(* match.                                                                  *)
C2_KeywordsInOrderMatch ==
    pc = "return" =>
        (OccurInOrder(re_split(objs[call.product].product_name),
                      call.listing.title, 1)
            => ret[1] = TRUE)

(* The candidates of the call that match its listing. *)
Fits == {j \in 1..Len(call.candidates) :
            product_name_match(call.candidates[j], call.listing)[1]}

NameOf(j) == objs[call.candidates[j]].product_name

-----------------------------------------------------------------------------
(* Properties of the recorded entries (SpecAlias) and of the process       *)
(* (SpecMain).                                                             *)

WellFormedInput ==
    /\ \A j \in 1..Len(products_fp) : products_fp[j].kind = "record"
    /\ \A j \in 1..Len(listings_fp) : listings_fp[j].kind = "record"

(* C10: on well-formed input the process raises nothing and, once it has   *)
(* ended, load_listings has returned the listings in input order, every    *)
(* listing has been reconciled and the mapping has been written.           *)
C10_RunsToCompletion ==
    WellFormedInput =>
        /\ pc # "raised"
        /\ pc = "done" =>
               /\ listing_list
                      = [j \in 1..Len(listings_fp) |-> listings_fp[j].record[1]]
               /\ i = Len(listings_fp) + 1
               /\ out # None

====
